---------------------------- MODULE Spec2Model ----------------------------
(***************************************************************************)
(* Model of code_architect_app.py (PGE Single-File Architect v5.5).        *)
(*                                                                         *)
(* A text is a sequence of tokens.  A token is a record                    *)
(*   [t : kind, a : string argument, n : number argument, v : plan]        *)
(* Whitespace, the three code fences, the "Error:" prefix, section         *)
(* headers, code bodies and JSON documents are tokens.  String operations  *)
(* of the program (strip, replace, startswith, splitlines, slicing, join)  *)
(* are operators on token sequences.                                       *)
(*                                                                         *)
(* One script run of the Streamlit page is cut at the calls of             *)
(* make_gemini_request: pc names the function that is waiting for the      *)
(* call, `call` is the state of the call's retry loop.  The Streamlit      *)
(* runtime is modelled as far as the script relies on it: session_state    *)
(* outlives a script run, a widget interaction starts a script run, and    *)
(* an uncaught exception ends the script run where it is raised.  A        *)
(* widget interaction while a script run is in progress is not modelled.   *)
(***************************************************************************)
EXTENDS Integers, Sequences, FiniteSets, TLC

\* ------------------------------------------------------------------ bounds
\* Longest plan the service answers with.
MaxPlan == 5

\* ------------------------------------------------------- program constants
\* make_gemini_request(..., retries=2, delay=20)
Retries == 2
\* st.slider("Short-Term Memory Window", 1, 5, 2, 1)
MinWindow == 1
MaxWindow == 5
DefaultWindow == 2
\* code_block[:250]
SummaryPrefixLen == 250

\* ------------------------------------------------------------------ tokens
Tok(t, a, n) == [t |-> t, a |-> a, n |-> n, v |-> <<>>]

WS         == Tok("ws", " ", 0)
NL         == Tok("ws", "\n", 0)
FenceJson  == Tok("fence", "json", 0)
FencePy    == Tok("fence", "python", 0)
Fence      == Tok("fence", "", 0)
Word(w)    == Tok("word", w, 0)
ErrorPfx   == Tok("word", "Error:", 0)
Bullet     == Tok("word", "- ", 0)
Ellipsis   == Tok("word", "...", 0)

IsSpace(tok) == tok.t = "ws"

\* --------------------------------------------------- string operations
\* str.strip(): leading and trailing whitespace removed.
RECURSIVE LStrip(_)
LStrip(s) ==
    IF s /= <<>> /\ IsSpace(Head(s)) THEN LStrip(Tail(s)) ELSE s

RECURSIVE RStrip(_)
RStrip(s) ==
    IF s /= <<>> /\ IsSpace(s[Len(s)]) THEN RStrip(SubSeq(s, 1, Len(s) - 1)) ELSE s

Strip(s) == RStrip(LStrip(s))

\* str.replace(f, "") for one of the tagged fences "```json", "```python".
RECURSIVE ReplaceTagged(_, _)
ReplaceTagged(s, f) ==
    IF s = <<>> THEN <<>>
    ELSE IF Head(s) = f THEN ReplaceTagged(Tail(s), f)
    ELSE <<Head(s)>> \o ReplaceTagged(Tail(s), f)

\* str.replace("```", ""): a bare fence disappears, a tagged fence that is
\* still in the text loses its backticks and leaves its tag behind.
RECURSIVE ReplaceBackticks(_)
ReplaceBackticks(s) ==
    IF s = <<>> THEN <<>>
    ELSE IF Head(s).t = "fence"
         THEN (IF Head(s).a = "" THEN <<>> ELSE <<Word(Head(s).a)>>)
              \o ReplaceBackticks(Tail(s))
         ELSE <<Head(s)>> \o ReplaceBackticks(Tail(s))

\* text.strip().replace(tagged, "").replace("```", "").strip()
StripFences(text, tagged) ==
    Strip(ReplaceBackticks(ReplaceTagged(Strip(text), tagged)))

\* str.startswith("Error:")
StartsWithError(s) == s /= <<>> /\ Head(s) = ErrorPfx

\* str.splitlines()[0] of a text that is not empty.
RECURSIVE FirstLine(_)
FirstLine(s) ==
    IF s = <<>> \/ Head(s) = NL THEN <<>> ELSE <<Head(s)>> \o FirstLine(Tail(s))

\* s[:n]
Take(s, n) == SubSeq(s, 1, IF Len(s) < n THEN Len(s) ELSE n)

\* sep.join(parts)
RECURSIVE Join(_, _)
Join(parts, sep) ==
    IF parts = <<>> THEN <<>>
    ELSE IF Len(parts) = 1 THEN parts[1]
    ELSE parts[1] \o sep \o Join(Tail(parts), sep)

\* str.upper() on the section names of the model.
Upper(name) ==
    CASE name = "a" -> "A"
      [] name = "S" -> "S"
      [] OTHER -> name

\* ------------------------------------------------------------- plan data
\* Python's None, as a text no operation of the program produces.
None == <<Tok("None", "", 0)>>

\* The elements of a "plan" list: one with both keys, one without the key
\* "section_name".
Steps == {[section_name |-> "a", description |-> "d"], [description |-> "d"]}

SeqsUpTo(S, n) == UNION {[1..k -> S] : k \in 0..n}

Plans == SeqsUpTo(Steps, MaxPlan)

\* JSON documents the planning request can be answered with.
JsonObject(p)   == [t |-> "json", a |-> "object", n |-> 1, v |-> p]
JsonObjectNoKey == [t |-> "json", a |-> "object", n |-> 0, v |-> <<>>]
JsonArray       == [t |-> "json", a |-> "array", n |-> 0, v |-> <<>>]

JsonDocs == {JsonObject(p) : p \in Plans} \cup {JsonObjectNoKey, JsonArray}

\* json.loads(text) raises JSONDecodeError unless the text is one document.
JsonDecodes(text) == Len(text) = 1 /\ text[1].t = "json"

\* plan.get("plan", []) of a decoded JSON object.
GetPlan(doc) == IF doc.n = 1 THEN doc.v ELSE <<>>

\* Prompts the user can enter (the button is disabled on an empty one).
Prompts == {<<Word("prompt")>>}

\* Exceptions requests.post / raise_for_status can raise.
RequestExceptions == {"Timeout", "HTTPError"}

\* step.get("section_name", f"S{i+1}") as a token; idx is enumerate's
\* 0-based index.
SectionName(step, idx) ==
    IF "section_name" \in DOMAIN step
    THEN Word(step.section_name)
    ELSE Tok("word", "S", idx + 1)

\* f"# --- SECTION: {section_name.upper()} ---"
Header(step, idx) ==
    LET name == SectionName(step, idx)
    IN  Tok("header", Upper(name.a), name.n)

\* ------------------------------------------------------------------ state
VARIABLES
    final_code,               \* st.session_state.final_code
    generation_failed,        \* st.session_state.generation_failed
    start_generation,         \* st.session_state.start_generation
    master_prompt,            \* st.session_state.master_prompt
    architect_plan,           \* st.session_state.architect_plan
    recent_sections_to_keep,  \* value of the sidebar slider
    pc,                       \* where the script run is
    plan,                     \* script global `plan` of the controller
    generated_code,           \* script global `generated_code`
    i,                        \* loop index of pge_step_2_generation_loop
    long_term_memory,
    short_term_memory_blocks,
    all_code_blocks,
    block_to_summarize,
    call,                     \* the make_gemini_request call in progress
    requests                  \* calls of make_gemini_request of this script run

session == <<final_code, generation_failed, start_generation, master_prompt,
             architect_plan>>
locals  == <<i, long_term_memory, short_term_memory_blocks, all_code_blocks,
             block_to_summarize>>
vars    == <<session, recent_sections_to_keep, pc, plan, generated_code,
             locals, call, requests>>

\* ------------------------------------------------- make_gemini_request
ErrEmpty     == <<ErrorPfx, Word("Empty response from API.")>>
ErrEnvelope  == <<ErrorPfx, Word("Could not parse API response.")>>
ErrExhausted == <<ErrorPfx, Word("API request failed after all retries.")>>
ErrException(e) == <<ErrorPfx, Word(e)>>

NoCall ==
    [kind |-> "none", prompt |-> <<>>, attempt |-> 0, errors |-> <<>>,
     posts |-> 0, sleeps |-> 0, paused |-> FALSE, status |-> "returned",
     result |-> <<>>]

\* Entry of the function: `for attempt in range(retries)` with its first
\* value; with no value at all the function falls through to its last line.
NewCall(kind, prompt) ==
    [kind |-> kind, prompt |-> prompt, attempt |-> 0, errors |-> <<>>,
     posts |-> 0, sleeps |-> 0, paused |-> FALSE,
     status |-> IF Retries > 0 THEN "running" ELSE "returned",
     result |-> IF Retries > 0 THEN <<>> ELSE ErrExhausted]

\* Mutant of RetriesRemain: `retries` read as the number of re-attempts.
RetriesRemainOneMore(attempt) == attempt < Retries

\* `if attempt < retries - 1` of the RequestException handler.
RetriesRemain(attempt) == attempt < Retries - 1

\* except requests.exceptions.RequestException as e: either time.sleep(delay)
\* and the next value of `for attempt in range(retries)` (the last line of the
\* function when there is none), or the return of the error.
AfterRequestException(c, e) ==
    IF RetriesRemain(c.attempt)
    THEN IF c.attempt + 1 < Retries
         THEN [c EXCEPT !.posts = @ + 1, !.errors = Append(@, e),
                        !.sleeps = @ + 1, !.attempt = @ + 1]
         ELSE [c EXCEPT !.posts = @ + 1, !.errors = Append(@, e),
                        !.sleeps = @ + 1, !.status = "returned",
                        !.result = ErrExhausted]
    ELSE [c EXCEPT !.posts = @ + 1, !.errors = Append(@, e),
                   !.status = "returned", !.result = ErrException(e)]

\* except (KeyError, IndexError): the envelope has no candidate or no part.
AfterBadEnvelope(c) ==
    [c EXCEPT !.posts = @ + 1, !.errors = Append(@, "IndexError"),
              !.status = "returned", !.result = ErrEnvelope]

\* Mutant of AfterEmptyText: an empty text is handled like an exception of
\* the request, with a delay and another attempt while `attempt < retries - 1`.
AfterEmptyTextRetried(c) ==
    IF c.attempt < Retries - 1
    THEN [c EXCEPT !.posts = @ + 1, !.errors = Append(@, "Empty"),
                   !.sleeps = @ + 1, !.attempt = @ + 1]
    ELSE [c EXCEPT !.posts = @ + 1, !.errors = Append(@, "Empty"),
                   !.status = "returned", !.result = ErrEmpty]

\* `if not result_text`
AfterEmptyText(c) ==
    [c EXCEPT !.posts = @ + 1, !.errors = Append(@, "Empty"),
              !.status = "returned", !.result = ErrEmpty]

\* time.sleep(1); return result_text
AfterText(c, text) ==
    [c EXCEPT !.posts = @ + 1, !.paused = TRUE, !.status = "returned",
              !.result = text]

\* ------------------------------------------------------------- prompts
\* user_prompt of pge_step_1_planning
PlanPrompt(mp) == <<Word("request:")>> \o mp

\* user_prompt of pge_step_2_generation_loop
SectionPrompt(ltm, stm, step, idx) ==
    <<Word("Long-Term Memory:")>>
    \o (IF ltm /= <<>> THEN ltm ELSE <<Word("N/A")>>)
    \o <<Word("Short-Term Memory:")>>
    \o (IF stm /= <<>> THEN Join(stm, <<NL, NL>>) ELSE <<Word("N/A")>>)
    \o <<Word("Current Task:"), SectionName(step, idx),
         Word("Instructions:"), Word(step.description)>>

\* user_prompt of summarize_code_block
SummaryPrompt(code_block) ==
    <<Word("summarize:"), FencePy, NL>> \o code_block \o <<NL, Fence>>

\* user_prompt of pge_step_3_refinement
RefinePrompt(code, mp) ==
    <<Word("Original Prompt:")>> \o mp
    \o <<Word("Script to Correct:"), FencePy, NL>> \o code \o <<NL, Fence>>

\* ------------------------------------------- answers of the service
\* A text as it is, inside a ```json fence, and inside a ```python fence.
Bare(body)        == body
JsonFenced(body)  == <<FenceJson, NL>> \o body \o <<NL, Fence, NL>>
PyFenced(body)    == <<FencePy, NL>> \o body \o <<NL, Fence, NL>>

\* The code the service writes for the k-th section request of a run.
Code(k) == Tok("code", "", k)

\* The sentence the service writes about the block whose header it is shown.
SummarySentence(prompt) ==
    LET hs == SelectSeq(prompt, LAMBDA tok : tok.t = "header")
        cs == SelectSeq(prompt, LAMBDA tok : tok.t = "code")
    IN  Tok("summary", IF hs = <<>> THEN "" ELSE hs[1].a,
                       IF cs = <<>> THEN 0 ELSE cs[1].n)

Refined == Tok("code", "refined", 0)

SectionRequests(reqs) == SelectSeq(reqs, LAMBDA r : r.kind = "section")

\* The non-empty generated texts an attempt of call c can receive.
ServiceTexts(c, reqs) ==
    CASE c.kind = "plan" ->
            {Bare(<<d>>) : d \in JsonDocs}
            \cup {JsonFenced(<<d>>) : d \in JsonDocs}
            \cup {PyFenced(<<JsonObject(<<>>)>>),
                  <<Word("Sure!"), JsonObject(<<>>)>>}
      [] c.kind = "section" ->
            LET k == Len(SectionRequests(reqs))
            IN  {Bare(<<Code(k)>>), PyFenced(<<Code(k)>>)}
      [] c.kind = "summary" ->
            {<<SummarySentence(c.prompt)>>}
      [] c.kind = "refine" ->
            {Bare(<<Refined>>), PyFenced(<<Refined>>), JsonFenced(<<Refined>>)}
      [] OTHER -> {}

\* ------------------------------------------------------------ the script
\* Entry of `requests`: a call of make_gemini_request, the 1-based plan
\* step it was made for, and how it ended: "pending", "text" or "failure"
\* (a return value that starts with "Error:").
Request(kind, section) ==
    [kind |-> kind, section |-> section, outcome |-> "pending"]

Ended(reqs, c) ==
    IF c.status = "returned"
    THEN [reqs EXCEPT ![Len(reqs)].outcome =
              IF StartsWithError(c.result) THEN "failure" ELSE "text"]
    ELSE reqs

NoLocals ==
    /\ i' = 0
    /\ long_term_memory' = <<>>
    /\ short_term_memory_blocks' = <<>>
    /\ all_code_blocks' = <<>>
    /\ block_to_summarize' = <<>>

Init ==
    /\ final_code = <<>>
    /\ generation_failed = FALSE
    /\ start_generation = FALSE
    /\ master_prompt = <<>>
    /\ architect_plan = <<>>
    /\ recent_sections_to_keep = DefaultWindow
    /\ pc = "idle"
    /\ plan = None
    /\ generated_code = None
    /\ i = 0
    /\ long_term_memory = <<>>
    /\ short_term_memory_blocks = <<>>
    /\ all_code_blocks = <<>>
    /\ block_to_summarize = <<>>
    /\ call = NoCall
    /\ requests = <<>>

\* The display block of col2: the script is shown and offered for download.
Displayed == final_code /= <<>> /\ ~generation_failed

\* A script run reaches the controller: with the trigger set it calls
\* pge_step_1_planning, which issues the planning request; without it the
\* run goes straight to the display block and ends.
RunController(mp, sg) ==
    /\ plan' = None
    /\ generated_code' = None
    /\ NoLocals
    /\ IF sg
       THEN /\ pc' = "planning"
            /\ call' = NewCall("plan", PlanPrompt(mp))
            /\ requests' = <<Request("plan", 0)>>
       ELSE /\ pc' = "idle"
            /\ call' = NoCall
            /\ requests' = <<>>

\* The "Generate Application" button is pressed with prompt mp in the text
\* area; st.rerun() starts the script again.
PressGenerate(mp) ==
    /\ pc = "idle"
    /\ final_code' = <<>>
    /\ generation_failed' = FALSE
    /\ architect_plan' = <<>>
    /\ master_prompt' = mp
    /\ start_generation' = TRUE
    /\ UNCHANGED recent_sections_to_keep
    /\ RunController(mp, TRUE)

\* Any other widget interaction (here: the slider is set to w) reruns the
\* script without a press of the button.
Rerun(w) ==
    /\ pc = "idle"
    /\ recent_sections_to_keep' = w
    /\ UNCHANGED <<final_code, generation_failed, master_prompt, architect_plan,
                   start_generation>>
    /\ RunController(master_prompt, start_generation)

\* Lines 198-199: the controller resets the trigger and the run ends.
EndController ==
    /\ start_generation' = FALSE
    /\ pc' = "idle"

\* An uncaught exception ends the script run at once.
ScriptException ==
    /\ pc' = "idle"
    /\ UNCHANGED start_generation

\* ----------------------------------------- attempts of the call in progress
others == <<session, recent_sections_to_keep, pc, plan, generated_code,
            locals>>

\* requests.post or raise_for_status raises a RequestException.
AttemptRequestException(e) ==
    /\ call.status = "running"
    /\ call' = AfterRequestException(call, e)
    /\ requests' = Ended(requests, call')
    /\ UNCHANGED others

\* The response has no candidate or no part.
AttemptBadEnvelope ==
    /\ call.status = "running"
    /\ call' = AfterBadEnvelope(call)
    /\ requests' = Ended(requests, call')
    /\ UNCHANGED others

\* The response carries an empty text.
AttemptEmptyText ==
    /\ call.status = "running"
    /\ call' = AfterEmptyText(call)
    /\ requests' = Ended(requests, call')
    /\ UNCHANGED others

\* The response carries a text.
AttemptText(text) ==
    /\ call.status = "running"
    /\ call' = AfterText(call, text)
    /\ requests' = Ended(requests, call')
    /\ UNCHANGED others

\* ----------------------------------------------------- pge_step_1_planning
\* `if response_text.startswith("Error:"): return None`
PlanRequestFailed(r) == StartsWithError(r)

\* Mutant of PlanningResult: a text that does not decode is repaired into a
\* one-step plan.
PlanningResultRepairing(r) ==
    IF PlanRequestFailed(r) THEN [is |-> "none", plan |-> <<>>]
    ELSE LET clean_response == StripFences(r, FenceJson)
         IN  IF ~JsonDecodes(clean_response)
             THEN [is |-> "plan", plan |-> <<[description |-> "d"]>>]
             ELSE IF clean_response[1].a /= "object"
                  THEN [is |-> "raise", plan |-> <<>>]
                  ELSE [is |-> "plan", plan |-> GetPlan(clean_response[1])]

\* What pge_step_1_planning makes of the text r: "none" (return None),
\* "raise" (AttributeError of plan.get on a document that is no object)
\* or "plan" with the list.
PlanningResult(r) ==
    IF PlanRequestFailed(r) THEN [is |-> "none", plan |-> <<>>]
    ELSE LET clean_response == StripFences(r, FenceJson)
         IN  IF ~JsonDecodes(clean_response) THEN [is |-> "none", plan |-> <<>>]
             ELSE IF clean_response[1].a /= "object"
                  THEN [is |-> "raise", plan |-> <<>>]
                  ELSE [is |-> "plan", plan |-> GetPlan(clean_response[1])]

\* ------------------------------------------- pge_step_2_generation_loop
\* Mutant of SectionFailed: the error check of the loop is missing.
SectionFailedUnchecked(r) == FALSE

\* `if generated_code.startswith("Error:")`
SectionFailed(r) == StartsWithError(r)

\* clean_code and full_block of one iteration.
FullBlock(step, idx, r) ==
    <<Header(step, idx), NL>> \o StripFences(r, FencePy) \o <<NL>>

\* Mutant of Collect: the new block is put in front of the list.
CollectInFront(blocks, full_block) == <<full_block>> \o blocks

\* all_code_blocks.append(full_block)
Collect(blocks, full_block) == Append(blocks, full_block)

\* Mutants of Overflows: the window is taken one block too large, and one
\* block too small.
OverflowsLate(stm, w) == Len(stm) > w + 1
OverflowsEarly(stm, w) == Len(stm) >= w

\* `if len(short_term_memory_blocks) > recent_sections_to_keep`
Overflows(stm, w) == Len(stm) > w

\* return "\n".join(all_code_blocks)
FinalScript(blocks) == Join(blocks, <<NL>>)

\* `if summary.startswith("Error:")`
SummaryFailed(r) == StartsWithError(r)

\* Mutant of SummaryOf: the answer is returned without the fallback.
SummaryOfNoFallback(code_block, r) == r

\* summarize_code_block's return value for the answer r.
SummaryOf(code_block, r) ==
    IF SummaryFailed(r)
    THEN FirstLine(code_block) \o <<NL>> \o Take(code_block, SummaryPrefixLen)
         \o <<Ellipsis, NL, NL>>
    ELSE r

\* long_term_memory += f"- {summary}\n"
Remember(ltm, summary) == ltm \o <<Bullet>> \o summary \o <<NL>>

\* ----------------------------------------------------- pge_step_3_refinement
\* `if corrected_code.startswith("Error:")`
RefineFailed(r) == StartsWithError(r)

\* Mutant of RefinementResult: no fallback to the script it was given.
RefinementResultNoFallback(code, r) == StripFences(r, FencePy)

RefinementResult(code, r) ==
    IF RefineFailed(r) THEN code ELSE StripFences(r, FencePy)

\* ------------------------------------------------------------ control flow
\* Top of the `for` loop with index idx.  With a step left, its request is
\* issued.  With none left the loop returns the joined blocks, and the
\* controller, `if generated_code:`, calls pge_step_3_refinement, which
\* issues the refinement request.  The loop's variables keep the values
\* they had at its return until the next script run.
NextIteration(thePlan, idx, ltm, stm, blocks) ==
    IF idx < Len(thePlan)
    THEN /\ pc' = "generating"
         /\ i' = idx
         /\ long_term_memory' = ltm
         /\ short_term_memory_blocks' = stm
         /\ all_code_blocks' = blocks
         /\ block_to_summarize' = block_to_summarize
         /\ call' = NewCall("section", SectionPrompt(ltm, stm, thePlan[idx + 1], idx))
         /\ requests' = Append(requests, Request("section", idx + 1))
         /\ UNCHANGED <<generated_code, start_generation>>
    ELSE /\ generated_code' = FinalScript(blocks)
         /\ long_term_memory' = ltm
         /\ short_term_memory_blocks' = stm
         /\ all_code_blocks' = blocks
         /\ UNCHANGED <<i, block_to_summarize>>
         /\ IF FinalScript(blocks) /= <<>>
            THEN /\ pc' = "refining"
                 /\ call' = NewCall("refine",
                                    RefinePrompt(FinalScript(blocks), master_prompt))
                 /\ requests' = Append(requests, Request("refine", 0))
                 /\ UNCHANGED start_generation
            ELSE /\ EndController
                 /\ UNCHANGED <<call, requests>>

\* pge_step_1_planning gets its answer; the controller goes on, `if plan:`.
PlanningReturn ==
    /\ pc = "planning"
    /\ call.status = "returned"
    /\ UNCHANGED <<final_code, generation_failed, master_prompt,
                   recent_sections_to_keep>>
    /\ LET res == PlanningResult(call.result)
       IN  CASE res.is = "raise" ->
                  /\ ScriptException
                  /\ UNCHANGED <<architect_plan, plan, generated_code, locals,
                                 call, requests>>
             [] res.is = "none" ->
                  /\ EndController
                  /\ UNCHANGED <<architect_plan, plan, generated_code, locals,
                                 call, requests>>
             [] res.is = "plan" ->
                  /\ architect_plan' = res.plan
                  /\ plan' = res.plan
                  /\ IF res.plan /= <<>>
                     THEN NextIteration(res.plan, 0, <<>>, <<>>, <<>>)
                     ELSE /\ EndController
                          /\ UNCHANGED <<generated_code, locals, call, requests>>

\* One iteration of the loop gets the answer to its section request.
GenerationReturn ==
    /\ pc = "generating"
    /\ call.status = "returned"
    /\ UNCHANGED <<final_code, master_prompt, architect_plan,
                   recent_sections_to_keep, plan>>
    /\ IF SectionFailed(call.result)
       THEN /\ generation_failed' = TRUE
            /\ EndController
            /\ UNCHANGED <<generated_code, locals, call, requests>>
       ELSE LET full_block == FullBlock(plan[i + 1], i, call.result)
                blocks     == Collect(all_code_blocks, full_block)
                stm        == Append(short_term_memory_blocks, full_block)
            IN  /\ UNCHANGED generation_failed
                /\ IF Overflows(stm, recent_sections_to_keep)
                   THEN /\ pc' = "summarizing"
                        /\ block_to_summarize' = Head(stm)
                        /\ short_term_memory_blocks' = Tail(stm)
                        /\ all_code_blocks' = blocks
                        /\ call' = NewCall("summary", SummaryPrompt(Head(stm)))
                        /\ requests' = Append(requests, Request("summary", i + 1))
                        /\ UNCHANGED <<i, long_term_memory, generated_code,
                                       start_generation>>
                   ELSE NextIteration(plan, i + 1, long_term_memory, stm, blocks)

\* summarize_code_block gets its answer; the iteration ends.
SummarizeReturn ==
    /\ pc = "summarizing"
    /\ call.status = "returned"
    /\ UNCHANGED <<final_code, generation_failed, master_prompt, architect_plan,
                   recent_sections_to_keep, plan>>
    /\ NextIteration(plan, i + 1,
                     Remember(long_term_memory,
                              SummaryOf(block_to_summarize, call.result)),
                     short_term_memory_blocks, all_code_blocks)

\* pge_step_3_refinement gets its answer; the controller stores the result.
RefinementReturn ==
    /\ pc = "refining"
    /\ call.status = "returned"
    /\ final_code' = RefinementResult(generated_code, call.result)
    /\ EndController
    /\ UNCHANGED <<generation_failed, master_prompt, architect_plan,
                   recent_sections_to_keep, plan, generated_code, locals,
                   call, requests>>

Next ==
    \/ \E mp \in Prompts : PressGenerate(mp)
    \/ \E w \in MinWindow..MaxWindow : Rerun(w)
    \/ \E e \in RequestExceptions : AttemptRequestException(e)
    \/ AttemptBadEnvelope
    \/ AttemptEmptyText
    \/ \E text \in ServiceTexts(call, requests) : AttemptText(text)
    \/ PlanningReturn
    \/ GenerationReturn
    \/ SummarizeReturn
    \/ RefinementReturn

Spec == Init /\ [][Next]_vars

\* ================================================================ claims
Last(s) == s[Len(s)]

RequestsOf(kind) == SelectSeq(requests, LAMBDA r : r.kind = kind)

\* C1 -- Fail-fast section generation.  When the request for a section
\* returns a Failure, that request is the last call of the run: no section,
\* summary or refinement request follows it.  The loop returns no script
\* (generated_code stays None), final_code stays empty, nothing is displayed,
\* and once the run has ended generation_failed is set.
C1_FailFast ==
    \A k \in DOMAIN requests :
        (requests[k].kind = "section" /\ requests[k].outcome = "failure")
        => /\ k = Len(requests)
           /\ RequestsOf("refine") = <<>>
           /\ pc \in {"generating", "idle"}
           /\ generated_code = None
           /\ final_code = <<>>
           /\ ~Displayed
           /\ pc = "idle" => (generation_failed /\ ~start_generation)

\* Section 2 of a 3-step plan has failed after section 1 was generated.
C1_Witness ==
    /\ pc = "idle"
    /\ plan /= None
    /\ Len(plan) = 3
    /\ Len(all_code_blocks) = 1
    /\ Len(requests) = 3
    /\ requests[3] = [kind |-> "section", section |-> 2, outcome |-> "failure"]
    /\ generation_failed

\* C2 -- Refinement is non-fatal.  When the refinement request returns a
\* Failure, the run ends with final_code equal to the script the loop
\* returned, the script is displayed and generation_failed is still FALSE.
C2_RefinementNonFatal ==
    (pc = "idle" /\ requests /= <<>> /\ Last(requests).kind = "refine"
        /\ Last(requests).outcome = "failure")
    => /\ generated_code /= None
       /\ generated_code = Join(all_code_blocks, <<NL>>)
       /\ final_code = generated_code
       /\ ~generation_failed
       /\ ~start_generation
       /\ Displayed

C2_Witness ==
    /\ pc = "idle"
    /\ requests /= <<>>
    /\ Last(requests) = [kind |-> "refine", section |-> 0, outcome |-> "failure"]
    /\ Len(all_code_blocks) = 2
    /\ final_code = generated_code
    /\ Displayed

\* The text, with its fences stripped, is not one JSON document.
Malformed(text) ==
    LET clean == StripFences(text, FenceJson)
    IN  Len(clean) /= 1 \/ clean[1].t /= "json"

\* C3 -- A planning parse failure halts the pipeline.  When the planning
\* request is answered with a text that is no JSON document, the step that
\* handles the answer ends the run: no further request is made (the planning
\* request stays the only call of the run), no plan is made up, final_code
\* stays empty and the trigger is reset.
C3_ParseFailureHalts ==
    [][(pc = "planning" /\ call.status = "returned"
            /\ ~StartsWithError(call.result) /\ Malformed(call.result))
       => (/\ pc' = "idle"
           /\ requests' = requests
           /\ Len(requests') = 1
           /\ call' = call
           /\ plan' = None
           /\ architect_plan' = <<>>
           /\ final_code' = <<>>
           /\ ~start_generation')]_vars

\* A run that ended on a fenced answer that is no JSON document.
C3_Witness ==
    /\ pc = "idle"
    /\ call.kind = "plan"
    /\ call.status = "returned"
    /\ ~StartsWithError(call.result)
    /\ Malformed(call.result)
    /\ Head(call.result).t = "fence"
    /\ Len(requests) = 1
    /\ ~start_generation

IsPrefix(s, t) == Len(s) <= Len(t) /\ SubSeq(t, 1, Len(s)) = s

Count(s, tok) == Len(SelectSeq(s, LAMBDA x : x = tok))

\* t is s, or s with one bulleted line appended.
SameOrOneLineMore(s, t) ==
    /\ IsPrefix(s, t)
    /\ LET added == SubSeq(t, Len(s) + 1, Len(t))
       IN  \/ added = <<>>
           \/ /\ Len(added) >= 3
              /\ Head(added) = Bullet
              /\ Last(added) = NL
              /\ Count(added, Bullet) = 1

\* C4 -- Memory invariant of the generation loop.  The short-term memory
\* never holds more than recent_sections_to_keep blocks between two steps of
\* the loop, and within a script run every step leaves the long-term memory
\* as it was or appends one bulleted summary line to it.
C4_MemoryInvariant ==
    /\ [](Len(short_term_memory_blocks) <= recent_sections_to_keep)
    /\ [][pc /= "idle" => SameOrOneLineMore(long_term_memory, long_term_memory')]_vars

\* The window is full and two summaries have been put into long-term memory.
C4_Witness ==
    /\ pc = "generating"
    /\ Len(short_term_memory_blocks) = recent_sections_to_keep
    /\ Count(long_term_memory, Bullet) = 2

\* The block the loop builds for plan step k (1-based) from the answer to
\* the k-th section request.
ExpectedBlock(k) == <<Header(plan[k], k - 1), NL, Code(k), NL>>

\* C5 -- Order preservation.  Section requests are made in plan order (the
\* k-th section request of a run is for plan step k), the k-th collected
\* block is the header of plan step k followed by the code answered to the
\* k-th request, and a script the loop returns is these blocks, one per plan
\* step and in plan order, joined by newlines.
C5_OrderPreserved ==
    /\ \A k \in DOMAIN RequestsOf("section") : RequestsOf("section")[k].section = k
    /\ \A k \in DOMAIN all_code_blocks : all_code_blocks[k] = ExpectedBlock(k)
    /\ generated_code /= None
       => /\ Len(all_code_blocks) = Len(plan)
          /\ Len(RequestsOf("section")) = Len(plan)
          /\ generated_code = Join([k \in 1..Len(plan) |-> ExpectedBlock(k)], <<NL>>)

\* A script of three sections, one named by default, after an eviction.
C5_Witness ==
    /\ generated_code /= None
    /\ Len(plan) = 3
    /\ plan[1] /= plan[2]
    /\ RequestsOf("summary") /= <<>>
    /\ Count(generated_code, Tok("header", "S", 2)) = 1

\* Every call of the run so far has returned a text.
AllCallsSucceeded(reqs) == \A k \in DOMAIN reqs : reqs[k].outcome = "text"

Max(a, b) == IF a > b THEN a ELSE b

\* The loop has returned its script and the refinement request is pending;
\* the slider still has the value the loop was called with.
LoopSucceeded ==
    /\ pc = "refining"
    /\ call.status = "running"
    /\ call.posts = 0
    /\ AllCallsSucceeded(SubSeq(requests, 1, Len(requests) - 1))

\* C6 as stated -- Service-call count of the generation loop.  For a plan of
\* N steps and a window W with every call succeeding, the loop makes N
\* section requests and at most N \div W summary requests.
C6_Original ==
    LoopSucceeded
    => /\ Len(RequestsOf("section")) = Len(plan)
       /\ Len(RequestsOf("summary")) <= Len(plan) \div recent_sections_to_keep

\* C6 as amended -- For a plan of N steps and a window W with every call
\* succeeding, the loop makes N section requests and max(0, N - W) summary
\* requests: one for every section after the first W.
C6_CallCount ==
    LoopSucceeded
    => /\ Len(RequestsOf("section")) = Len(plan)
       /\ Len(RequestsOf("summary")) = Max(0, Len(plan) - recent_sections_to_keep)

\* Five sections with a window of two: three summary requests.
C6_Witness ==
    /\ LoopSucceeded
    /\ Len(plan) = 5
    /\ recent_sections_to_keep = 2
    /\ Len(RequestsOf("summary")) = 3

\* Every attempt the call has made raised a RequestException.
AllAttemptsRaised(c) ==
    /\ c.posts > 0
    /\ Len(c.errors) = c.posts
    /\ \A k \in DOMAIN c.errors : c.errors[k] \in RequestExceptions

\* C7 as stated -- Bounded retry.  A call whose attempts all raise a
\* RequestException returns after Retries re-attempts of the initial attempt,
\* with a delay between consecutive attempts and none after the last, and
\* returns the error of the last attempt.
C7_Original ==
    (call.status = "returned" /\ AllAttemptsRaised(call))
    => /\ call.posts - 1 = Retries
       /\ call.sleeps = call.posts - 1
       /\ call.result = ErrException(Last(call.errors))

\* C7 as amended -- Bounded retry.  A call never makes more than Retries
\* attempts in all.  A call whose attempts all raise a RequestException
\* returns after exactly Retries attempts (Retries - 1 re-attempts), and
\* returns the error of the last attempt.  The delay is waited between
\* consecutive attempts and not after the last: a running call has waited
\* once per attempt made, a returned call once less than that.  A returned
\* text is the text of the last attempt, and every attempt before it raised
\* a RequestException.
C7_BoundedRetry ==
    /\ call.posts <= Retries
    /\ call.status = "running" => (call.sleeps = call.posts /\ call.posts = call.attempt)
    /\ (call.status = "returned" /\ call.posts > 0) => call.sleeps = call.posts - 1
    /\ (call.status = "returned" /\ AllAttemptsRaised(call))
       => /\ call.posts = Retries
          /\ call.result = ErrException(Last(call.errors))
    /\ (call.status = "returned" /\ call.posts > 0 /\ ~StartsWithError(call.result))
       => /\ call.paused
          /\ Len(call.errors) = call.posts - 1
          /\ \A k \in DOMAIN call.errors : call.errors[k] \in RequestExceptions

\* Two attempts raised different exceptions; the second one is returned.
C7_Witness ==
    /\ call.status = "returned"
    /\ call.errors = <<"Timeout", "HTTPError">>
    /\ call.sleeps = 1
    /\ call.result = ErrException("HTTPError")

\* C8 as stated -- Empty responses are retried.  The call returns the
\* empty-response Failure only once its attempts are used up.
C8_Original ==
    (call.status = "returned" /\ call.result = ErrEmpty) => call.posts = Retries

\* C8 as amended -- An empty text ends the call.  The attempt that receives
\* it is the last attempt of the call, whether or not attempts remain: no
\* delay is waited after it and the call returns the empty-response Failure.
C8_EmptyEndsCall ==
    \A k \in DOMAIN call.errors :
        call.errors[k] = "Empty"
        => /\ k = Len(call.errors)
           /\ call.status = "returned"
           /\ call.result = ErrEmpty
           /\ call.sleeps = k - 1

\* The first attempt received an empty text and the call has returned.
C8_Witness ==
    /\ call.status = "returned"
    /\ call.errors = <<"Empty">>
    /\ call.posts < Retries
    /\ call.result = ErrEmpty

\* Positions of the bullets in long-term memory, and the j-th bulleted line.
BulletAt ==
    SelectSeq([k \in 1..Len(long_term_memory) |-> k],
              LAMBDA k : long_term_memory[k] = Bullet)

MemoryLine(j) ==
    SubSeq(long_term_memory, BulletAt[j],
           IF j < Len(BulletAt) THEN BulletAt[j + 1] - 1 ELSE Len(long_term_memory))

\* The line a summary made in the program from the block alone: its first
\* line (the section header), then the first SummaryPrefixLen tokens of the
\* block and an ellipsis.
LocalLine(block) ==
    <<Bullet, block[1], NL>>
    \o SubSeq(block, 1, IF Len(block) < SummaryPrefixLen THEN Len(block)
                        ELSE SummaryPrefixLen)
    \o <<Ellipsis, NL, NL, NL>>

\* Summary requests whose answer the loop has handled.
HandledSummaries ==
    Len(RequestsOf("summary")) - (IF pc = "summarizing" THEN 1 ELSE 0)

\* C9 -- The summarizer never fails its caller.  A summary request that
\* returned a Failure is never the end of the run: unless its answer is still
\* to be handled another request follows it, and it does not set
\* generation_failed.  Long-term memory holds one line per handled summary
\* request; the line of the j-th is built from the j-th block of the script:
\* from the block alone when the request failed, and the service's sentence
\* about that block otherwise.
C9_SummarizerNeverFails ==
    /\ (requests /= <<>> /\ Last(requests).kind = "summary")
       => (pc = "summarizing" /\ ~generation_failed)
    /\ Len(BulletAt) = HandledSummaries
    /\ \A j \in 1..HandledSummaries :
          MemoryLine(j) =
             IF RequestsOf("summary")[j].outcome = "failure"
             THEN LocalLine(all_code_blocks[j])
             ELSE <<Bullet, Tok("summary", all_code_blocks[j][1].a, j), NL>>

\* A summary request failed, its local line is in long-term memory, and the
\* loop has gone on to the next section.
C9_Witness ==
    /\ pc = "generating"
    /\ Len(RequestsOf("summary")) = 2
    /\ RequestsOf("summary")[1].outcome = "failure"
    /\ RequestsOf("summary")[2].outcome = "text"
    /\ Len(long_term_memory) > 2
    /\ long_term_memory[2].t = "header"

\* C10 -- Stable final state of the run controller.  When a script run has
\* ended, whatever its outcome, start_generation is FALSE, so that a rerun
\* without a press of the button does not start the pipeline.
C10_TriggerReset == pc = "idle" => ~start_generation

====
